---------------------------- MODULE Spec2Model ----------------------------
(***************************************************************************)
(* Model of src/geo.py: class Geo, eleven stateless geodesy operations.   *)
(*                                                                         *)
(* Numbers.  Python floats are modelled as fixed-point numbers: the        *)
(* integer n stands for the real n / S.  The functions of Python's math    *)
(* module are computed in that arithmetic (argument reduction followed by  *)
(* a truncated series), the way a libm computes them in binary floating    *)
(* point.  Every primitive is sign-symmetric, as IEEE arithmetic is.       *)
(* Where Python raises (float division by zero, math domain error) the     *)
(* operations below test the raising condition before they use the value.  *)
(* Python float arithmetic on finite operands raises instead of producing  *)
(* inf or nan, so no modelled number is inf or nan.                        *)
(***************************************************************************)
EXTENDS Integers, Sequences, FiniteSets, TLC

(***************************************************************************)
(* Bounds of the input space.                                              *)
(***************************************************************************)
LatDiv == 2      \* in-range latitudes:  90*k/LatDiv degrees,  k in -LatDiv..LatDiv
LonDiv == 2      \* in-range longitudes: 180*k/LonDiv degrees, k in -LonDiv..LonDiv
BrngDiv == 4     \* bearings of the destination operations: 360*k/BrngDiv degrees
MaxBrngK == 1    \* bearings of intersection: 90*k degrees, k in 0..MaxBrngK
MaxDistK == 2    \* distances: k*DistStep km, k in 0..MaxDistK

(***************************************************************************)
(* Fixed-point arithmetic.                                                 *)
(***************************************************************************)
S == 1000                 \* resolution: one unit is 1/S
PI == 3140                \* math.pi, rounded down to a multiple of 4 units
HalfPi == PI \div 2
QuarterPi == PI \div 4
Ln2 == 693                \* log(2)

Abs(x) == IF x < 0 THEN -x ELSE x
Sgn(x) == IF x < 0 THEN -1 ELSE IF x > 0 THEN 1 ELSE 0
Max(a, b) == IF a >= b THEN a ELSE b
Min(a, b) == IF a >= b THEN b ELSE a
FromInt(n) == n * S
Clamp(x, lo, hi) == IF x < lo THEN lo ELSE IF x > hi THEN hi ELSE x

\* a * b, rounded to nearest (half away from zero).
MulPos(big, small) ==
    (big \div S) * small + ((big % S) * small + S \div 2) \div S
Mul(a, b) ==
    Sgn(a) * Sgn(b) * MulPos(Max(Abs(a), Abs(b)), Min(Abs(a), Abs(b)))

\* a / b for b # 0, by long division, rounded to nearest.
DivDigit3(n, b) == n \div b + (IF 2 * (n % b) >= b THEN 1 ELSE 0)
DivDigit2(n, b) == (n \div b) * 10 + DivDigit3((n % b) * 10, b)
DivDigit1(n, b) == (n \div b) * 100 + DivDigit2((n % b) * 10, b)
DivPos(a, b) == (a \div b) * S + DivDigit1((a % b) * 10, b)
Div(a, b) == Sgn(a) * Sgn(b) * DivPos(Abs(a), Abs(b))

\* Python's float % for a positive modulus: the result has the sign of m.
Mod(a, m) == a % m

RECURSIVE ISqrt(_, _, _)
ISqrt(n, lo, hi) ==
    IF lo >= hi THEN lo
    ELSE IF ((lo + hi + 1) \div 2) * ((lo + hi + 1) \div 2) <= n
         THEN ISqrt(n, (lo + hi + 1) \div 2, hi)
         ELSE ISqrt(n, lo, (lo + hi + 1) \div 2 - 1)
\* math.sqrt(x) for x >= 0; the values on [0, 4] are tabulated once.
SqrtTable == [x \in 0..(4 * S) |-> ISqrt(x * S, 0, 46340)]
Sqrt(x) == IF x <= 4 * S THEN SqrtTable[x] ELSE ISqrt(x * S, 0, 46340)

\* sin on [0, pi/2]: x * (1 - x^2/6 * (1 - x^2/20 * (1 - x^2/42))), x2 = x^2.
\* Like a libm's, the value never leaves [0, 1].
SinSeries(x, x2) ==
    Mul(x, S - Mul(Div(x2, FromInt(6)),
                   S - Mul(Div(x2, FromInt(20)), S - Div(x2, FromInt(42)))))
SinPoly(x) == Clamp(SinSeries(x, Mul(x, x)), 0, S)
\* cos on [0, pi/2]: 1 - x^2/2 * (1 - x^2/12 * (1 - x^2/30 * (1 - x^2/56))).
CosSeries(x2) ==
    S - Mul(Div(x2, FromInt(2)),
            S - Mul(Div(x2, FromInt(12)),
                    S - Mul(Div(x2, FromInt(30)), S - Div(x2, FromInt(56)))))
CosPoly(x) == Clamp(CosSeries(Mul(x, x)), 0, S)

\* The two series, tabulated once.
SinTable == [x \in 0..HalfPi |-> SinPoly(x)]
CosTable == [x \in 0..HalfPi |-> CosPoly(x)]

\* sin on [0, pi] and on [0, 2*pi): by reflection.
SinHalf(r) == SinTable[IF 2 * r > PI THEN PI - r ELSE r]
SinPos(r) == (IF r > PI THEN -1 ELSE 1) * SinHalf(IF r > PI THEN r - PI ELSE r)
Sin(x) == Sgn(x) * SinPos(Abs(x) % (2 * PI))

\* cos on [0, pi] and on [0, 2*pi): by reflection.
CosHalf(h) == (IF 2 * h > PI THEN -1 ELSE 1) * CosTable[IF 2 * h > PI THEN PI - h ELSE h]
CosPos(r) == CosHalf(IF r > PI THEN 2 * PI - r ELSE r)
Cos(x) == CosPos(Abs(x) % (2 * PI))

\* math.tan(x).  It never raises: where cos(x) vanishes the double is huge
\* but finite (math.tan(math.pi/2) is 1.6e16), and a quotient by it does not
\* underflow.  TanMax is the largest tangent the resolution allows that for.
TanMax == 100 * S
TanOf(sn, cs) == IF cs = 0 THEN Sgn(sn) * TanMax ELSE Div(sn, cs)
Tan(x) == TanOf(Sin(x), Cos(x))

\* log on [1, 2): 2 * atanh(z) = 2 * z * (1 + z^2 * (1/3 + z^2/5)),
\* z = (m - 1) / (m + 1), z2 = z^2.
LogSeries(z, z2) ==
    2 * Mul(z, S + Mul(z2, Div(S, FromInt(3)) + Div(z2, FromInt(5))))
LogPoly(m) == LogSeries(Div(m - S, m + S), Mul(Div(m - S, m + S), Div(m - S, m + S)))
LogTable == [m \in S..(2 * S - 1) |-> LogPoly(m)]
RECURSIVE LogRed(_, _)
LogRed(x, k) ==
    IF x >= 2 * S THEN LogRed((x + 1) \div 2, k + 1)
    ELSE IF x < S THEN LogRed(2 * x, k - 1)
    ELSE k * Ln2 + LogTable[x]
\* math.log(x) for x > 0.
Log(x) == LogRed(x, 0)

\* atan for |z| <= tan(pi/8): z * (1 - z^2 * (1/3 - z^2 * (1/5 - z^2/7))).
AtanSeries(z, z2) ==
    Mul(z, S - Mul(z2, Div(S, FromInt(3))
                         - Mul(z2, Div(S, FromInt(5)) - Div(z2, FromInt(7)))))
AtanPoly(z) == AtanSeries(z, Mul(z, z))
\* atan on [0, 1]: above tan(pi/8), pi/4 + atan((t - 1) / (t + 1)).
Atan01(t) ==
    (IF 1000 * t > 414 * S THEN QuarterPi ELSE 0)
      + AtanPoly(IF 1000 * t > 414 * S THEN Div(t - S, t + S) ELSE t)
AtanTable == [t \in 0..S |-> Atan01(t)]
\* atan2 for y >= 0, x >= 0, not both zero.
AtanFold(a, direct) == IF direct THEN a ELSE HalfPi - a
AtanQ1(y, x) == AtanFold(AtanTable[Div(Min(y, x), Max(y, x))], y <= x)
\* atan2 for y > 0.
AtanUpper(a, right) == IF right THEN a ELSE PI - a
\* math.atan2(y, x).  negzero tells whether a zero y is -0.0 (or a negative
\* value below the resolution): IEEE atan2 then returns -pi instead of pi on
\* the negative x axis, and fixed point has no signed zero to carry it.
Atan2(y, x, negzero) ==
    IF y = 0 THEN
        IF x >= 0 THEN 0 ELSE IF negzero THEN -PI ELSE PI
    ELSE Sgn(y) * AtanUpper(AtanQ1(Abs(y), Abs(x)), x >= 0)

\* math.asin(v) and math.acos(v) for -1 <= v <= 1.
Asin(v) == Atan2(v, Sqrt(FromInt(1) - Mul(v, v)), FALSE)
Acos(v) == Atan2(Sqrt(FromInt(1) - Mul(v, v)), v, FALSE)

\* math.radians(x) and math.degrees(x).
Radians(x) == Div(Mul(x, PI), FromInt(180))
Degrees(x) == Div(Mul(x, FromInt(180)), PI)

\* round(x, 2): to the nearest hundredth, halves to the even one.
Round2(x) ==
    LET u  == S \div 100
        q  == Abs(x) \div u
        r  == Abs(x) % u
        up == 2 * r > u \/ (2 * r = u /\ q % 2 = 1)
    IN  Sgn(x) * u * (IF up THEN q + 1 ELSE q)

\* math.isinf(x) and math.isnan(x): no modelled number is inf or nan.
IsInf(x) == FALSE
IsNan(x) == FALSE

(***************************************************************************)
(* Outcomes of a call.  raised names the exception that leaves the call,   *)
(* stderr is the text an except branch wrote ("" when none ran), and the   *)
(* returned value is a number (kind "num") or a [lat, lon] list (kind      *)
(* "pair").                                                                *)
(***************************************************************************)
NoResult ==
    [raised |-> "", stderr |-> "", kind |-> "none", num |-> 0, lat |-> 0, lon |-> 0]
Raise(exc) ==
    [raised |-> exc, stderr |-> "", kind |-> "none", num |-> 0, lat |-> 0, lon |-> 0]
\* except Exception as ex: sys.stderr.write('ERROR: %s\n' % str(ex)); return 1
Except(msg) ==
    [raised |-> "", stderr |-> msg, kind |-> "num", num |-> FromInt(1),
     lat |-> 0, lon |-> 0]
Num(v) ==
    [raised |-> "", stderr |-> "", kind |-> "num", num |-> v, lat |-> 0, lon |-> 0]
Pair(la, lo) ==
    [raised |-> "", stderr |-> "", kind |-> "pair", num |-> 0, lat |-> la, lon |-> lo]

ZeroDivision == "float division by zero"
DomainError == "math domain error"

R == FromInt(6371)

(***************************************************************************)
(* Range validation.                                                       *)
(***************************************************************************)
LatOutOfRange_Exclusive(lat) == lat >= FromInt(90) \/ lat <= FromInt(-90)
LatOutOfRange(lat) == lat > FromInt(90) \/ lat < FromInt(-90)
LonOutOfRange(lon) == lon > FromInt(180) \/ lon < FromInt(-180)

\* The outcome of the two if statements that open an operation on two
\* points; NoResult when both pass.
ValidateTwo(lat1, lon1, lat2, lon2) ==
    IF LatOutOfRange(lat1) \/ LatOutOfRange(lat2)
    THEN Raise("LatitudeRangeException")
    ELSE IF LonOutOfRange(lon1) \/ LonOutOfRange(lon2)
    THEN Raise("LongitudeRangeException")
    ELSE NoResult
\* The same for the operations that test one point only.
ValidateOne(lat1, lon1) ==
    IF LatOutOfRange(lat1) THEN Raise("LatitudeRangeException")
    ELSE IF LonOutOfRange(lon1) THEN Raise("LongitudeRangeException")
    ELSE NoResult

(***************************************************************************)
(* Great-circle distances.                                                 *)
(***************************************************************************)
haversine_a_Lat1Twice(lat1, lon1, lat2, lon2) ==
    LET Lat  == Radians(lat2 - lat1)
        Lon  == Radians(lon2 - lon1)
        sLat == Sin(Div(Lat, FromInt(2)))
        sLon == Sin(Div(Lon, FromInt(2)))
    IN  Mul(sLat, sLat)
          + Mul(Mul(Mul(Cos(Radians(lat1)), Cos(Radians(lat1))), sLon), sLon)
\* a = sin(Lat/2)^2 + cos(lat1) * cos(lat2) * sin(Lon/2)^2
haversine_a(lat1, lon1, lat2, lon2) ==
    LET Lat  == Radians(lat2 - lat1)
        Lon  == Radians(lon2 - lon1)
        sLat == Sin(Div(Lat, FromInt(2)))
        sLon == Sin(Div(Lon, FromInt(2)))
    IN  Mul(sLat, sLat)
          + Mul(Mul(Mul(Cos(Radians(lat1)), Cos(Radians(lat2))), sLon), sLon)

distance_haversine(lat1, lon1, lat2, lon2) ==
    LET v == ValidateTwo(lat1, lon1, lat2, lon2)
        a == haversine_a(lat1, lon1, lat2, lon2)
    IN  IF v.raised # "" THEN v
        ELSE IF a < 0 \/ FromInt(1) - a < 0 THEN Except(DomainError)
        ELSE Num(Mul(R, 2 * Atan2(Sqrt(a), Sqrt(FromInt(1) - a), FALSE)))

distance_sloc(lat1, lon1, lat2, lon2) ==
    LET v  == ValidateTwo(lat1, lon1, lat2, lon2)
        r1 == Radians(lat1)
        r2 == Radians(lat2)
        x  == Mul(Sin(r1), Sin(r2))
                + Mul(Mul(Cos(r1), Cos(r2)), Cos(Radians(lon2 - lon1)))
    IN  IF v.raised # "" THEN v
        ELSE IF Abs(x) > FromInt(1) THEN Except(DomainError)
        ELSE Num(Mul(R, Acos(x)))

(***************************************************************************)
(* Great-circle bearings.                                                  *)
(***************************************************************************)
\* brng of initial_bearing and of final_bearing: the same statements.
BearingAngle(lat1d, lon1d, lat2d, lon2d, negzero) ==
    LET lat1 == Radians(lat1d)
        lat2 == Radians(lat2d)
        lon1 == Radians(lon1d)
        lon2 == Radians(lon2d)
        dLon == lon2 - lon1
        y    == Mul(Sin(dLon), Cos(lat2))
        x    == Mul(Cos(lat1), Sin(lat2)) - Mul(Mul(Sin(lat1), Cos(lat2)), Cos(dLon))
    IN  Atan2(y, x, negzero)

Normalize360_NoModulo(brng) == Degrees(brng) + FromInt(360)
Normalize360(brng) == Mod(Degrees(brng) + FromInt(360), FromInt(360))
Normalize180(brng) == Mod(Degrees(brng) + FromInt(180), FromInt(360))

initial_bearing(lat1, lon1, lat2, lon2, negzero) ==
    LET v == ValidateTwo(lat1, lon1, lat2, lon2)
    IN  IF v.raised # "" THEN v
        ELSE Num(Normalize360(BearingAngle(lat1, lon1, lat2, lon2, negzero)))

final_bearing_Swapped(lat1, lon1, lat2, lon2, negzero) ==
    LET v == ValidateTwo(lat1, lon1, lat2, lon2)
    IN  IF v.raised # "" THEN v
        ELSE Num(Normalize360(BearingAngle(lat2, lon2, lat1, lon1, negzero)))
final_bearing(lat1, lon1, lat2, lon2, negzero) ==
    LET v == ValidateTwo(lat1, lon1, lat2, lon2)
    IN  IF v.raised # "" THEN v
        ELSE Num(Normalize180(BearingAngle(lat1, lon1, lat2, lon2, negzero)))

(***************************************************************************)
(* Great-circle midpoint.                                                  *)
(***************************************************************************)
midpoint(lat1d, lon1d, lat2d, lon2d, negzero) ==
    LET v    == ValidateTwo(lat1d, lon1d, lat2d, lon2d)
        lat1 == Radians(lat1d)
        lon1 == Radians(lon1d)
        lat2 == Radians(lat2d)
        lon2 == Radians(lon2d)
        bx   == Mul(Cos(lat2), Cos(lon2 - lon1))
        by   == Mul(Cos(lat2), Sin(lon2 - lon1))
        cb   == Cos(lat1) + bx
        mLat == Atan2(Sin(lat1) + Sin(lat2), Sqrt(Mul(cb, cb) + Mul(by, by)), negzero)
        mLon == lon1 + Atan2(by, cb, negzero)
    IN  IF v.raised # "" THEN v
        ELSE Pair(Round2(Degrees(mLat)), Round2(Degrees(mLon)))

(***************************************************************************)
(* Intersection of two paths.                                              *)
(***************************************************************************)
\* The statements after f1 and f2: courses, angles of the triangle, and the
\* projection from point 1.
IntersectionTail(lat1, lon1, brng1, lat2, lon2, brng2, d, f1, f2, negzero) ==
    LET b1 == IF Sin(lon2 - lon1) > 0 THEN f1 ELSE 2 * PI - f1
        b2 == IF Sin(lon2 - lon1) > 0 THEN 2 * PI - f2 ELSE f2
        a1 == Mod(brng1 - b1 + PI, 2 * PI) - PI
        a2 == Mod(b2 - brng2 + PI, 2 * PI) - PI
        x3 == Mul(-Cos(a1), Cos(a2)) + Mul(Mul(Sin(a1), Sin(a2)), Cos(d))
        a3 == Acos(x3)
        dx == Atan2(Mul(Mul(Sin(d), Sin(a1)), Sin(a2)),
                    Cos(a2) + Mul(Cos(a1), Cos(a3)), negzero)
        xl == Mul(Sin(lat1), Cos(dx)) + Mul(Mul(Cos(lat1), Sin(dx)), Cos(brng1))
        lat3   == Asin(xl)
        dLon13 == Atan2(Mul(Mul(Sin(brng1), Sin(dx)), Cos(lat1)),
                        Cos(dx) - Mul(Sin(lat1), Sin(lat3)), negzero)
        lon3   == Mod(lon1 + dLon13 + PI, 2 * PI) - PI
    IN  IF Sin(a1) = 0 /\ Sin(a2) = 0 THEN Num(0)
        ELSE IF Mul(Sin(a1), Sin(a2)) < 0 THEN Num(0)
        ELSE IF Abs(x3) > FromInt(1) THEN Except(DomainError)
        ELSE IF Abs(xl) > FromInt(1) THEN Except(DomainError)
        ELSE Pair(Degrees(lat3), Degrees(lon3))

\* if d == 0
IsCoincident_Never(d) == FALSE
IsCoincident(d) == d = 0

\* if math.isnan(f1): f1 = 0
NanToZero(f1) == IF IsNan(f1) THEN 0 ELSE f1

\* The statements from the conversion to radians to f2.
IntersectionBody(lat1d, lon1d, brng1d, lat2d, lon2d, brng2d, negzero) ==
    LET lat1  == Radians(lat1d)
        lon1  == Radians(lon1d)
        lat2  == Radians(lat2d)
        lon2  == Radians(lon2d)
        dLat  == lat2 - lat1
        dLon  == lon2 - lon1
        brng1 == Radians(brng1d)
        brng2 == Radians(brng2d)
        sLat  == Sin(Div(dLat, FromInt(2)))
        sLon  == Sin(Div(dLon, FromInt(2)))
        h     == Mul(sLat, sLat) + Mul(Mul(Mul(Cos(lat1), Cos(lat2)), sLon), sLon)
        d     == 2 * Asin(Sqrt(h))
        den1  == Mul(Sin(d), Cos(lat1))
        x1    == Div(Sin(lat2) - Mul(Sin(lat1), Cos(d)), den1)
        f1    == NanToZero(Acos(x1))
        den2  == Mul(Sin(d), Cos(lat2))
        x2    == Div(Sin(lat1) - Mul(Sin(lat2), Cos(d)), den2)
        f2    == Acos(x2)
    IN  IF h < 0 \/ Sqrt(h) > FromInt(1) THEN Except(DomainError)
        ELSE IF IsCoincident(d) THEN Num(0)
        ELSE IF den1 = 0 THEN Except(ZeroDivision)
        ELSE IF Abs(x1) > FromInt(1) THEN Except(DomainError)
        ELSE IF den2 = 0 THEN Except(ZeroDivision)
        ELSE IF Abs(x2) > FromInt(1) THEN Except(DomainError)
        ELSE IntersectionTail(lat1, lon1, brng1, lat2, lon2, brng2, d, f1, f2, negzero)

intersection(lat1, lon1, brng1, lat2, lon2, brng2, negzero) ==
    LET v == ValidateTwo(lat1, lon1, lat2, lon2)
    IN  IF v.raised # "" THEN v
        ELSE IntersectionBody(lat1, lon1, brng1, lat2, lon2, brng2, negzero)

(***************************************************************************)
(* Rhumb lines.                                                            *)
(***************************************************************************)
\* x/2 + math.pi/4
HalfPlusQuarter(x) == Div(x, FromInt(2)) + Div(PI, FromInt(4))

\* If dLon over 180 take shorter rhumb across 180 meridian.
ShorterDLon(dLon) ==
    IF Abs(dLon) > PI
    THEN IF dLon > 0 THEN -(2 * PI - dLon) ELSE 2 * PI + dLon
    ELSE dLon

\* (lon + 3 * math.pi) % (2 * math.pi) - math.pi
NormalizeLon_NoWrap(lon) == lon
NormalizeLon(lon) == Mod(lon + 3 * PI, 2 * PI) - PI

rhumb_distance(lat1d, lon1d, lat2d, lon2d) ==
    LET v     == ValidateTwo(lat1d, lon1d, lat2d, lon2d)
        lat1  == Radians(lat1d)
        lat2  == Radians(lat2d)
        lon1  == Radians(lon1d)
        lon2  == Radians(lon2d)
        dLat  == lat2 - lat1
        dLon  == Abs(lon2 - lon1)
        t2    == Tan(HalfPlusQuarter(lat2))
        t1    == Tan(HalfPlusQuarter(lat1))
        ratio == Div(t2, t1)
        dPhi  == Log(ratio)
        q     == IF IsInf(Div(dLat, dPhi)) THEN Cos(lat1) ELSE Div(dLat, dPhi)
        dLon2 == ShorterDLon(dLon)
        dist  == Mul(Sqrt(Mul(dLat, dLat) + Mul(Mul(q, q), Mul(dLon2, dLon2))), R)
    IN  IF v.raised # "" THEN v
        ELSE IF t1 = 0 THEN Except(ZeroDivision)
        ELSE IF ratio <= 0 THEN Except(DomainError)
        ELSE IF dPhi = 0 THEN Except(ZeroDivision)
        ELSE Num(dist)

rhumb_bearing(lat1d, lon1d, lat2d, lon2d, negzero) ==
    LET v     == ValidateTwo(lat1d, lon1d, lat2d, lon2d)
        lat1  == Radians(lat1d)
        lat2  == Radians(lat2d)
        lon1  == Radians(lon1d)
        lon2  == Radians(lon2d)
        dLon  == lon2 - lon1
        t2    == Tan(HalfPlusQuarter(lat2))
        t1    == Tan(HalfPlusQuarter(lat1))
        ratio == Div(t2, t1)
        dPhi  == Log(ratio)
        brng  == Atan2(ShorterDLon(dLon), dPhi, negzero)
    IN  IF v.raised # "" THEN v
        ELSE IF t1 = 0 THEN Except(ZeroDivision)
        ELSE IF ratio <= 0 THEN Except(DomainError)
        ELSE Num(Normalize360(brng))

rhumb_destination_point(lat1d, lon1d, brngd, distkm) ==
    LET v     == ValidateOne(lat1d, lon1d)
        d     == Div(distkm, R)
        lat1  == Radians(lat1d)
        lon1  == Radians(lon1d)
        brng  == Radians(brngd)
        lat2  == lat1 + Mul(d, Cos(brng))
        dLat  == lat2 - lat1
        t2    == Tan(HalfPlusQuarter(lat2))
        t1    == Tan(HalfPlusQuarter(lat1))
        ratio == Div(t2, t1)
        dPhi  == Log(ratio)
        q     == IF IsInf(Div(dLat, dPhi)) THEN Cos(lat1) ELSE Div(dLat, dPhi)
        dLon  == Div(Mul(d, Sin(brng)), q)
        lat2r == IF Abs(lat2) > Div(PI, FromInt(2))
                 THEN IF lat2 > 0 THEN PI - lat2 ELSE -PI - lat2
                 ELSE lat2
        lon2  == NormalizeLon(lon1 + dLon)
    IN  IF v.raised # "" THEN v
        ELSE IF t1 = 0 THEN Except(ZeroDivision)
        ELSE IF ratio <= 0 THEN Except(DomainError)
        ELSE IF dPhi = 0 THEN Except(ZeroDivision)
        ELSE IF q = 0 THEN Except(ZeroDivision)
        ELSE Pair(Degrees(lat2r), Degrees(lon2))

rhumb_midpoint(lat1d, lon1d, lat2d, lon2d) ==
    LET v     == ValidateOne(lat1d, lon1d)
        lat1  == Radians(lat1d)
        lat2  == Radians(lat2d)
        lon1  == Radians(lon1d)
        lon2  == Radians(lon2d)
        lat3  == Div(lat2 + lat1, FromInt(2))
        f1    == Tan(Div(PI, FromInt(4)) + Div(lat1, FromInt(2)))
        f2    == Tan(Div(PI, FromInt(4)) + Div(lat2, FromInt(2)))
        f3    == Tan(Div(PI, FromInt(4)) + Div(lat3, FromInt(2)))
        numer == Mul(lon2 - lon1, Log(f3)) + Mul(lon1, Log(f2)) - Mul(lon2, Log(f1))
        ratio == Div(f2, f1)
        denom == Log(ratio)
        lon3  == IF IsNan(Div(numer, denom)) THEN Div(lon1 + lon2, FromInt(2))
                 ELSE Div(numer, denom)
    IN  IF v.raised # "" THEN v
        ELSE IF f3 <= 0 \/ f2 <= 0 \/ f1 <= 0 THEN Except(DomainError)
        ELSE IF ratio <= 0 THEN Except(DomainError)
        ELSE IF denom = 0 THEN Except(ZeroDivision)
        ELSE Pair(Degrees(lat3), Degrees(NormalizeLon(lon3)))

(***************************************************************************)
(* Great-circle destination point.                                         *)
(***************************************************************************)
destination_point(lat1d, lon1d, brngd, distkm, negzero) ==
    LET v     == ValidateOne(lat1d, lon1d)
        dist  == Div(distkm, R)
        lat1  == Radians(lat1d)
        lon1  == Radians(lon1d)
        brng  == Radians(brngd)
        x     == Mul(Sin(lat1), Cos(dist)) + Mul(Mul(Cos(lat1), Sin(dist)), Cos(brng))
        lat2  == Asin(x)
        lon2  == lon1 + Atan2(Mul(Mul(Sin(brng), Sin(dist)), Cos(lat1)),
                              Cos(dist) - Mul(Sin(lat1), Sin(lat2)), negzero)
    IN  IF v.raised # "" THEN v
        ELSE IF Abs(x) > FromInt(1) THEN Except(DomainError)
        ELSE Pair(Degrees(lat2), Degrees(NormalizeLon(lon2)))

(***************************************************************************)
(* The state machine: one call of one operation on a Geo object, which     *)
(* has no fields.  The state is the call: its arguments (in degrees and    *)
(* km; an argument the operation does not take is 0) and its outcome.      *)
(***************************************************************************)
VARIABLES pc, op, lat1, lon1, brng1, lat2, lon2, brng2, dist, negzero, result
vars == <<pc, op, lat1, lon1, brng1, lat2, lon2, brng2, dist, negzero, result>>

DistStep == FromInt(4000)   \* km; a tenth of the circumference 2 * PI * R
Lats == {(FromInt(90) * k) \div LatDiv : k \in -LatDiv..LatDiv}
            \cup {FromInt(-91), FromInt(91)}
Lons == {(FromInt(180) * k) \div LonDiv : k \in -LonDiv..LonDiv}
            \cup {FromInt(-181), FromInt(181)}
Brngs == {(FromInt(360) * k) \div BrngDiv : k \in 0..BrngDiv}
IntersectionBrngs == {FromInt(90) * k : k \in 0..MaxBrngK}
Dists == {k * DistStep : k \in 0..MaxDistK}

TwoPointOps ==
    {"distance_haversine", "distance_sloc", "initial_bearing", "final_bearing",
     "midpoint", "intersection", "rhumb_distance", "rhumb_bearing",
     "rhumb_midpoint"}
OnePointOps == {"rhumb_destination_point", "destination_point"}

Init ==
    /\ pc = "idle"
    /\ op = "none"
    /\ lat1 = 0 /\ lon1 = 0 /\ brng1 = 0
    /\ lat2 = 0 /\ lon2 = 0 /\ brng2 = 0
    /\ dist = 0
    /\ negzero = FALSE
    /\ result = NoResult

\* A call on two points leaves its arguments and its outcome in the state.
CallTwo(name, a1, o1, a2, o2, nz, res) ==
    /\ pc' = "done"
    /\ op' = name
    /\ lat1' = a1 /\ lon1' = o1 /\ lat2' = a2 /\ lon2' = o2
    /\ brng1' = 0 /\ brng2' = 0 /\ dist' = 0
    /\ negzero' = nz
    /\ result' = res

DistanceHaversine ==
    /\ pc = "idle"
    /\ \E a1 \in Lats, o1 \in Lons, a2 \in Lats, o2 \in Lons :
           CallTwo("distance_haversine", a1, o1, a2, o2, FALSE,
                   distance_haversine(a1, o1, a2, o2))

DistanceSloc ==
    /\ pc = "idle"
    /\ \E a1 \in Lats, o1 \in Lons, a2 \in Lats, o2 \in Lons :
           CallTwo("distance_sloc", a1, o1, a2, o2, FALSE,
                   distance_sloc(a1, o1, a2, o2))

InitialBearing ==
    /\ pc = "idle"
    /\ \E a1 \in Lats, o1 \in Lons, a2 \in Lats, o2 \in Lons, nz \in BOOLEAN :
           CallTwo("initial_bearing", a1, o1, a2, o2, nz,
                   initial_bearing(a1, o1, a2, o2, nz))

FinalBearing ==
    /\ pc = "idle"
    /\ \E a1 \in Lats, o1 \in Lons, a2 \in Lats, o2 \in Lons, nz \in BOOLEAN :
           CallTwo("final_bearing", a1, o1, a2, o2, nz,
                   final_bearing(a1, o1, a2, o2, nz))

Midpoint ==
    /\ pc = "idle"
    /\ \E a1 \in Lats, o1 \in Lons, a2 \in Lats, o2 \in Lons, nz \in BOOLEAN :
           CallTwo("midpoint", a1, o1, a2, o2, nz, midpoint(a1, o1, a2, o2, nz))

Intersection ==
    /\ pc = "idle"
    /\ \E a1 \in Lats, o1 \in Lons, a2 \in Lats, o2 \in Lons,
       b1 \in IntersectionBrngs, b2 \in IntersectionBrngs, nz \in BOOLEAN :
           /\ pc' = "done"
           /\ op' = "intersection"
           /\ lat1' = a1 /\ lon1' = o1 /\ lat2' = a2 /\ lon2' = o2
           /\ brng1' = b1 /\ brng2' = b2 /\ dist' = 0
           /\ negzero' = nz
           /\ result' = intersection(a1, o1, b1, a2, o2, b2, nz)

RhumbDistance ==
    /\ pc = "idle"
    /\ \E a1 \in Lats, o1 \in Lons, a2 \in Lats, o2 \in Lons :
           CallTwo("rhumb_distance", a1, o1, a2, o2, FALSE,
                   rhumb_distance(a1, o1, a2, o2))

RhumbBearing ==
    /\ pc = "idle"
    /\ \E a1 \in Lats, o1 \in Lons, a2 \in Lats, o2 \in Lons, nz \in BOOLEAN :
           CallTwo("rhumb_bearing", a1, o1, a2, o2, nz,
                   rhumb_bearing(a1, o1, a2, o2, nz))

RhumbMidpoint ==
    /\ pc = "idle"
    /\ \E a1 \in Lats, o1 \in Lons, a2 \in Lats, o2 \in Lons :
           CallTwo("rhumb_midpoint", a1, o1, a2, o2, FALSE,
                   rhumb_midpoint(a1, o1, a2, o2))

\* A call on a point, a bearing and a distance.
CallOne(name, a1, o1, b, dk, nz, res) ==
    /\ pc' = "done"
    /\ op' = name
    /\ lat1' = a1 /\ lon1' = o1 /\ brng1' = b /\ dist' = dk
    /\ lat2' = 0 /\ lon2' = 0 /\ brng2' = 0
    /\ negzero' = nz
    /\ result' = res

RhumbDestinationPoint ==
    /\ pc = "idle"
    /\ \E a1 \in Lats, o1 \in Lons, b \in Brngs, dk \in Dists :
           CallOne("rhumb_destination_point", a1, o1, b, dk, FALSE,
                   rhumb_destination_point(a1, o1, b, dk))

DestinationPoint ==
    /\ pc = "idle"
    /\ \E a1 \in Lats, o1 \in Lons, b \in Brngs, dk \in Dists, nz \in BOOLEAN :
           CallOne("destination_point", a1, o1, b, dk, nz,
                   destination_point(a1, o1, b, dk, nz))

Next ==
    \/ DistanceHaversine
    \/ DistanceSloc
    \/ InitialBearing
    \/ FinalBearing
    \/ Midpoint
    \/ Intersection
    \/ RhumbDistance
    \/ RhumbBearing
    \/ RhumbDestinationPoint
    \/ RhumbMidpoint
    \/ DestinationPoint

Spec == Init /\ [][Next]_vars

(***************************************************************************)
(* Properties.                                                             *)
(***************************************************************************)
Done == pc = "done"
LatInRange(lat) == FromInt(-90) <= lat /\ lat <= FromInt(90)
LonInRange(lon) == FromInt(-180) <= lon /\ lon <= FromInt(180)
\* The latitudes and longitudes the call was given.
SuppliedLats == IF op \in TwoPointOps THEN {lat1, lat2} ELSE {lat1}
SuppliedLons == IF op \in TwoPointOps THEN {lon1, lon2} ELSE {lon1}
AllInRange ==
    /\ \A la \in SuppliedLats : LatInRange(la)
    /\ \A lo \in SuppliedLons : LonInRange(lo)

\* C1: in every operation, a latitude outside [-90, 90] in any supplied
\* point raises LatitudeRangeException, and a longitude outside [-180, 180]
\* (all latitudes in range) raises LongitudeRangeException.
C1_AllPointsValidated ==
    Done =>
        /\ (\E la \in SuppliedLats : ~LatInRange(la))
               => result.raised = "LatitudeRangeException"
        /\ ((\A la \in SuppliedLats : LatInRange(la))
                /\ (\E lo \in SuppliedLons : ~LonInRange(lo)))
               => result.raised = "LongitudeRangeException"

\* C2: the bounds are inclusive: a call whose coordinates all lie in
\* [-90, 90] and [-180, 180], the end points included, raises neither
\* range exception.
C2_InclusiveBounds ==
    (Done /\ AllInRange) => result.raised = ""
C2_Witness ==
    /\ Done
    /\ lat1 = FromInt(90) /\ lat2 = FromInt(-90)
    /\ lon1 = FromInt(180) /\ lon2 = FromInt(-180)
    /\ result.raised = ""

\* C3: a call whose coordinates pass validation returns its computed
\* result: no exception inside a formula ends it in the except branch.
C3_OnlyRangeErrorsEndEarly ==
    (Done /\ AllInRange) => (result.raised = "" /\ result.stderr = "")

\* C4 as claimed: the longitude returned by destination_point and by
\* rhumb_destination_point lies in (-180, 180].
C4_LonAboveMinus180 ==
    (Done /\ op \in OnePointOps /\ result.kind = "pair")
        => (FromInt(-180) < result.lon /\ result.lon <= FromInt(180))
\* C4 as amended: the longitude of every [lat, lon] pair returned by
\* destination_point and by rhumb_destination_point lies in [-180, 180).
C4_LonBelow180 ==
    (Done /\ op \in OnePointOps /\ result.kind = "pair")
        => (FromInt(-180) <= result.lon /\ result.lon < FromInt(180))
C4_Witness ==
    /\ Done /\ op = "destination_point"
    /\ lon1 = FromInt(180) /\ dist = 0
    /\ result.kind = "pair" /\ result.lon = FromInt(-180)

\* C5: for in-range points, initial_bearing, final_bearing and
\* rhumb_bearing return b with 0 <= b < 360.
C5_BearingRange ==
    (Done /\ op \in {"initial_bearing", "final_bearing", "rhumb_bearing"}
          /\ AllInRange)
        => (result.kind = "num" /\ 0 <= result.num /\ result.num < FromInt(360))
\* atan2 returned exactly -180 degrees.
C5_Witness ==
    /\ Done /\ op = "initial_bearing" /\ AllInRange
    /\ BearingAngle(lat1, lon1, lat2, lon2, negzero) = -PI
    /\ result.num = FromInt(180)

\* C6: intersection of two identical in-range points returns the sentinel
\* 0, whatever the bearings, and not through the except branch.
C6_CoincidentSentinel ==
    (Done /\ op = "intersection" /\ AllInRange /\ lat1 = lat2 /\ lon1 = lon2)
        => result = Num(0)
C6_Witness ==
    /\ Done /\ op = "intersection"
    /\ lat1 = FromInt(45) /\ lat2 = lat1 /\ lon1 = FromInt(90) /\ lon2 = lon1
    /\ brng1 = FromInt(90) /\ brng2 = brng1
    /\ result = Num(0)

\* C7: distance_haversine(p1, p2) = distance_haversine(p2, p1), and
\* distance_haversine(p, p) = 0, for in-range points.
C7_HaversineSymmetric ==
    (Done /\ op = "distance_haversine" /\ AllInRange)
        => /\ result = distance_haversine(lat2, lon2, lat1, lon1)
           /\ (lat1 = lat2 /\ lon1 = lon2) => result = Num(0)
C7_Witness ==
    /\ Done /\ op = "distance_haversine" /\ AllInRange
    /\ lat1 # lat2 /\ lon1 # lon2
    /\ result.kind = "num" /\ result.stderr = "" /\ result.num > 0

\* R * sqrt(dLat^2 + q^2 * dLon^2) with dLat = 0 and q = cos(lat1).
EastWestDistance ==
    LET q    == Cos(Radians(lat1))
        dLon == ShorterDLon(Abs(Radians(lon2) - Radians(lon1)))
    IN  Mul(Sqrt(Mul(Mul(q, q), Mul(dLon, dLon))), R)
\* C8: rhumb_distance of two in-range points on one parallel returns
\* R * cos(lat1) * |dLon|; it does not end on the division by dPhi.
C8_EastWestDistance ==
    (Done /\ op = "rhumb_distance" /\ AllInRange /\ lat1 = lat2)
        => result = Num(EastWestDistance)

\* C9: rhumb_midpoint of two in-range points on one parallel returns
\* [lat1, normalized (lon1 + lon2) / 2].
C9_ParallelMidpoint ==
    (Done /\ op = "rhumb_midpoint" /\ AllInRange /\ lat1 = lat2)
        => result = Pair(Degrees(Radians(lat1)),
                         Degrees(NormalizeLon(
                             Div(Radians(lon1) + Radians(lon2), FromInt(2)))))

ProjectedLat == Radians(lat1) + Mul(Div(dist, R), Cos(Radians(brng1)))
CrossesPole == Abs(ProjectedLat) > HalfPi
ReflectedLat ==
    IF ProjectedLat > 0 THEN PI - ProjectedLat ELSE -PI - ProjectedLat

\* C11: when the latitude projected by rhumb_destination_point from a valid
\* start point lies beyond +pi/2 or -pi/2, the call returns a [lat, lon]
\* pair whose latitude is the reflected one (pi - lat2, or -pi - lat2 for a
\* negative lat2); the dPhi/q computation does not end the call first.
C11_PoleCrossingReflected ==
    (Done /\ op = "rhumb_destination_point" /\ AllInRange /\ CrossesPole)
        => (result.kind = "pair" /\ result.lat = Degrees(ReflectedLat))

=============================================================================
